---- MODULE Spec2Model ----
(***************************************************************************)
(* Model of src/process.py: the ledger-synced directory walker             *)
(* (resize_images_in_folder with load_processed_images and                 *)
(* save_processed_images) run repeatedly over an input folder whose files  *)
(* are added and removed between runs.                                     *)
(*                                                                         *)
(* A file of the input folder is a record [name, ext].  An output path is  *)
(* the pair <<index, ".jpg">> that f"{image_index}.jpg" formats.  The      *)
(* ledger file is a record [kind, data]: kind says whether the file is     *)
(* absent, empty (0 bytes), invalid (not JSON, e.g. truncated) or json,    *)
(* and data is the JSON value it holds, [type, items].  A ledger element   *)
(* is a function whose DOMAIN is the set of keys of the JSON object, so a  *)
(* missing key is a key outside DOMAIN, as a KeyError is in Python.        *)
(***************************************************************************)
EXTENDS Integers, Sequences, FiniteSets, TLC

\* Number of decodable image files the input folder may hold.
NumImages == 2

-----------------------------------------------------------------------------
\* The files the environment may put into the input folder.

Exts == <<".jpg", ".PNG", ".jpeg", ".JPG">>

ImageFile(i) == [name |-> i, ext |-> Exts[((i - 1) % Len(Exts)) + 1]]

ImageFiles == {ImageFile(i) : i \in 1..NumImages}

\* A file with an image extension whose content Image.open cannot decode.
CorruptFile == [name |-> 0, ext |-> ".JPEG"]

\* A file the extension filter rejects.
TextFile == [name |-> 0, ext |-> ".txt"]

Files == ImageFiles \cup {CorruptFile, TextFile}

\* str.lower on the extensions in use.
lower(s) ==
    CASE s = ".PNG" -> ".png"
      [] s = ".JPG" -> ".jpg"
      [] s = ".JPEG" -> ".jpeg"
      [] OTHER -> s

\* file.lower().endswith(('.jpg', '.jpeg', '.png'))
AllowedExt(file) == lower(file.ext) \in {".jpg", ".jpeg", ".png"}

\* Image.open(input_path) succeeds.
Decodable(file) == file # CorruptFile

\* os.path.join(output_folder, f"{image_index}.jpg")
OutputPath(image_index) == <<image_index, ".jpg">>

-----------------------------------------------------------------------------
\* The ledger file and its JSON content.

HasKey(obj, key) == key \in DOMAIN obj

Entry(input_path, output_path) ==
    [input_path |-> input_path, output_path |-> output_path]

JsonList(items) == [type |-> "list", items |-> items]

JsonObject == [type |-> "object", items |-> <<>>]

AbsentFile == [kind |-> "absent", data |-> JsonObject]

EmptyFile == [kind |-> "empty", data |-> JsonObject]

InvalidFile == [kind |-> "invalid", data |-> JsonObject]

JsonFile(data) == [kind |-> "json", data |-> data]

\* load_processed_images: what the call returns, or that it raises.
Returned(value) == [raises |-> FALSE, value |-> value]

Raised == [raises |-> TRUE, value |-> <<>>]

load_processed_images_uncaught(json_file) ==
    IF json_file.kind = "absent"
    THEN Returned(<<>>)
    ELSE IF json_file.kind \in {"empty", "invalid"}
         THEN Raised
         ELSE IF json_file.data.type = "list"
              THEN Returned(json_file.data.items)
              ELSE Returned(<<>>)

load_processed_images(json_file) ==
    IF json_file.kind = "absent"
    THEN Returned(<<>>)
    ELSE IF json_file.kind \in {"empty", "invalid"}
         THEN Returned(<<>>)  \* json.JSONDecodeError caught: warning, start fresh
         ELSE IF json_file.data.type = "list"
              THEN Returned(json_file.data.items)
              ELSE Returned(<<>>)

\* save_processed_images: open(json_file, 'w') truncates, json.dump writes
\* the whole list; json.load reads back the list json.dump wrote.
save_processed_images_keep(json_file, processed_images) == json_file

save_processed_images(json_file, processed_images) ==
    JsonFile(JsonList(processed_images))

\* image_index = len(processed_images); if image_index != 0: image_index += 1
StartIndex(count) == IF count # 0 THEN count + 1 ELSE count

\* input_path in processed_paths
AlreadyProcessed_never(input_path, paths) == FALSE

AlreadyProcessed_always(input_path, paths) == TRUE

AlreadyProcessed(input_path, paths) == input_path \in paths

\* img['input_path'] not in current_input_paths
Stale_always(img, current) == TRUE

Stale(img, current) == img.input_path \notin current

-----------------------------------------------------------------------------
\* The output folder: the set of output paths that exist on disk.

NoFiles == {}

\* new_background.save(output_path): creates or overwrites the file.
WriteFile(disk, path) == disk \cup {path}

\* os.remove(path)
RemoveFile_noop(disk, path) == disk

RemoveFile(disk, path) == disk \ {path}

Max(a, b) == IF a >= b THEN a ELSE b

RECURSIVE MaxOf(_, _)
MaxOf(seq, floor) ==
    IF seq = <<>> THEN floor ELSE MaxOf(Tail(seq), Max(Head(seq), floor))

-----------------------------------------------------------------------------
\* process_image and crop_to_aspect_ratio: the sizes they compute.  An image
\* is its size <<width, height>>; a ratio is the pair <<num, den>> of the
\* float num / den.  The float expressions of the source are computed here in
\* integers: for the ratios and the sides within the bounds below,
\* evaluating the Python expressions gives w / h > r exactly when
\* w * den > h * num, int(x * r) = (x * num) \div den and
\* int(x / r) = (x * den) \div num, and round(a / b * c) is the rounding of
\* a * c / b to the nearest integer, halves to even.

\* Largest width and height of a source image.
MaxSide == 6

\* target_aspect_ratio = 5 / 3
AspectNum == 5

AspectDen == 3

target_aspect_ratio == <<AspectNum, AspectDen>>

\* target_width = 2000, target_height = 1200 of the entry point.
ConfigTargetWidth == 2000

ConfigTargetHeight == 1200

\* width / height > ratio
Wider(size, ratio) == size[1] * ratio[2] > size[2] * ratio[1]

\* int(x * ratio)
MulRatio(x, ratio) == (x * ratio[1]) \div ratio[2]

\* int(x / ratio)
DivRatio(x, ratio) == (x * ratio[2]) \div ratio[1]

\* crop_to_aspect_ratio: the box (left, upper, right, lower) handed to
\* image.crop.
crop_to_aspect_ratio(size, target_ratio) ==
    LET original_width == size[1]
        original_height == size[2]
        wider == Wider(size, target_ratio)
        new_width == IF wider THEN MulRatio(original_height, target_ratio)
                     ELSE original_width
        new_height == IF wider THEN original_height
                      ELSE DivRatio(original_width, target_ratio)
        left == IF wider THEN (original_width - new_width) \div 2 ELSE 0
        upper == IF wider THEN 0 ELSE (original_height - new_height) \div 2
    IN  <<left, upper, left + new_width, upper + new_height>>

\* The size of the image that image.crop(box) returns.
BoxSize(box) == <<box[3] - box[1], box[4] - box[2]>>

\* process_image, lines 58-63: (new_width, new_height).
CanvasSize_swapped(size) ==
    IF ~Wider(size, target_aspect_ratio)
    THEN <<size[1], DivRatio(size[1], target_aspect_ratio)>>
    ELSE <<MulRatio(size[2], target_aspect_ratio), size[2]>>

CanvasSize(size) ==
    IF Wider(size, target_aspect_ratio)
    THEN <<size[1], DivRatio(size[1], target_aspect_ratio)>>
    ELSE <<MulRatio(size[2], target_aspect_ratio), size[2]>>

\* process_image, line 65: paste_position.
PastePosition(new_size, size) ==
    <<(new_size[1] - size[1]) \div 2, (new_size[2] - size[2]) \div 2>>

\* The rounding ImageOps.contain applies to a * c / b: int() in the Pillow
\* releases that introduced it, round() in the later ones.
Rounded(a, c, b, rounding) ==
    LET floor == (a * c) \div b
        rest == (a * c) % b
    IN  IF rounding = "int" THEN floor
        ELSE IF 2 * rest > b \/ (2 * rest = b /\ floor % 2 = 1)
             THEN floor + 1
             ELSE floor

\* ImageOps.contain(image, size): the size of the image it returns, or that
\* it raises: ZeroDivisionError from image.width / image.height, ValueError
\* from image.resize to a size with a side below 1.
contain(image_size, size, rounding) ==
    IF image_size[2] = 0 \/ size[2] = 0
    THEN [raises |-> TRUE, error |-> "ZeroDivisionError", size |-> <<0, 0>>]
    ELSE LET same == image_size[1] * size[2] = size[1] * image_size[2]
             wider == image_size[1] * size[2] > size[1] * image_size[2]
             fitted ==
                 IF same THEN size
                 ELSE IF wider
                      THEN <<size[1],
                             Rounded(image_size[2], size[1], image_size[1],
                                     rounding)>>
                      ELSE <<Rounded(image_size[1], size[2], image_size[2],
                                     rounding),
                             size[2]>>
         IN  IF fitted[1] < 1 \/ fitted[2] < 1
             THEN [raises |-> TRUE, error |-> "ValueError", size |-> fitted]
             ELSE [raises |-> FALSE, error |-> "none", size |-> fitted]

\* The frame of one call of process_image or crop_to_aspect_ratio.
Frame(op, at, size, ratio, blurred, width, height, via_main, rounding) ==
    [op |-> op, pc |-> at, size |-> size, ratio |-> ratio,
     blurred_background |-> blurred,
     target_width |-> width, target_height |-> height,
     via_main |-> via_main, rounding |-> rounding,
     new_size |-> <<0, 0>>, paste_position |-> <<0, 0>>,
     box |-> <<0, 0, 0, 0>>, new_background |-> <<0, 0>>,
     saved |-> <<0, 0>>, error |-> "none"]

NoCall ==
    Frame("none", "idle", <<0, 0>>, target_aspect_ratio, FALSE, 0, 0, FALSE,
          "round")

Sizes == (1..MaxSide) \X (1..MaxSide)

\* Line 165: resize_images_in_folder(input_folder, output_folder, json_file,
\* blurred_background, target_height, target_width) binds its fifth
\* argument to the parameter target_width and its sixth to target_height;
\* line 128 passes the two parameters on to process_image in order.
MainCalls ==
    {Frame("process_image", "open", size, target_aspect_ratio, blurred,
           ConfigTargetHeight, ConfigTargetWidth, TRUE, rounding) :
        size \in Sizes, blurred \in BOOLEAN, rounding \in {"int", "round"}}

\* process_image called with other target sizes.
DirectCalls ==
    {Frame("process_image", "open", size, target_aspect_ratio, blurred,
           target[1], target[2], FALSE, rounding) :
        size \in Sizes, blurred \in BOOLEAN, rounding \in {"int", "round"},
        target \in {<<1, 1>>, <<AspectNum, AspectDen>>}}

\* The target ratios crop_to_aspect_ratio is called with on its own.
Ratios == {<<5, 3>>, <<1, 1>>, <<1, 2>>, <<3, 1>>, <<16, 9>>}

CropCalls ==
    {Frame("crop_to_aspect_ratio", "call", size, ratio, FALSE, 0, 0, FALSE,
           "round") :
        size \in Sizes, ratio \in Ratios}

-----------------------------------------------------------------------------
VARIABLES
    inputFiles,               \* files in the input folder
    outputFiles,              \* files in the output folder
    ledgerFile,               \* content of processed_images.json
    pc,                       \* idle, walk, prune, done, aborted
    error,                    \* the unhandled exception that ended the run
    processed_images,         \* resize_images_in_folder's locals
    processed_paths,
    image_index,
    current_input_paths,
    todo,                     \* files os.walk has not yielded yet
    updated_processed_images,
    pruneAt,                  \* position of the prune loop in processed_images
    ledgerAtStart,            \* history: the ledger file when the run started
    assigned,                 \* history: indexes given out in this run, in order
    procCalls,                \* history: inputs process_image was called for
    written,                  \* history: output paths saved in this run
    deleted,                  \* history: output paths removed in this run
    saves,                    \* history: writes of the ledger file in this run
    maxAssigned,              \* history: largest index of earlier completed runs
    unchanged,                \* history: last run completed, folder untouched since
    rerun,                    \* history: this run started with unchanged true
    frame                     \* the call of process_image being followed

locals == <<processed_images, processed_paths, image_index,
            current_input_paths, todo, updated_processed_images, pruneAt>>

history == <<ledgerAtStart, assigned, procCalls, written, deleted, saves,
             maxAssigned, unchanged, rerun>>

walker == <<inputFiles, outputFiles, ledgerFile, pc, error, locals, history>>

vars == <<walker, frame>>

Running == pc \in {"walk", "prune"}

\* The list the current run loaded.
Loaded == load_processed_images(ledgerAtStart).value

Fresh ==
    /\ pc = "idle"
    /\ error = "none"
    /\ processed_images = <<>>
    /\ processed_paths = {}
    /\ image_index = 0
    /\ current_input_paths = {}
    /\ todo = {}
    /\ updated_processed_images = <<>>
    /\ pruneAt = 1
    /\ assigned = <<>>
    /\ procCalls = {}
    /\ written = {}
    /\ deleted = {}
    /\ saves = 0
    /\ rerun = FALSE

Init ==
    /\ inputFiles = {}
    /\ outputFiles = NoFiles
    /\ ledgerFile = AbsentFile
    /\ ledgerAtStart = AbsentFile
    /\ maxAssigned = -1
    /\ unchanged = FALSE
    /\ frame = NoCall
    /\ Fresh

\* The values the run's locals and per-run history take between runs.
Reset ==
    /\ pc' = "idle"
    /\ error' = "none"
    /\ processed_images' = <<>>
    /\ processed_paths' = {}
    /\ image_index' = 0
    /\ current_input_paths' = {}
    /\ todo' = {}
    /\ updated_processed_images' = <<>>
    /\ pruneAt' = 1
    /\ assigned' = <<>>
    /\ procCalls' = {}
    /\ written' = {}
    /\ deleted' = {}
    /\ saves' = 0
    /\ rerun' = FALSE

-----------------------------------------------------------------------------
\* The environment, between runs: a file appears in the input folder.
AddInput(file) ==
    /\ ~Running
    /\ file \notin inputFiles
    /\ inputFiles' = inputFiles \cup {file}
    /\ unchanged' = FALSE
    /\ Reset
    /\ UNCHANGED frame
    /\ UNCHANGED <<outputFiles, ledgerFile, ledgerAtStart, maxAssigned>>

\* The environment, between runs: a file is deleted from the input folder.
RemoveInput(file) ==
    /\ ~Running
    /\ file \in inputFiles
    /\ inputFiles' = inputFiles \ {file}
    /\ unchanged' = FALSE
    /\ Reset
    /\ UNCHANGED frame
    /\ UNCHANGED <<outputFiles, ledgerFile, ledgerAtStart, maxAssigned>>

\* resize_images_in_folder, lines 108-115: load the ledger, build the set of
\* processed paths, choose the first index, start the walk.  The set
\* comprehension subscripts every element with 'input_path' and raises
\* KeyError (TypeError for a non-object) when one has no such key.
Load ==
    /\ ~Running
    /\ LET result == load_processed_images(ledgerFile)
           list == result.value
           badKey == \E i \in 1..Len(list) : ~HasKey(list[i], "input_path")
           raises == result.raises \/ badKey
       IN  /\ pc' = IF raises THEN "aborted" ELSE "walk"
           /\ error' = IF result.raises THEN "JSONDecodeError"
                       ELSE IF badKey THEN "KeyError" ELSE "none"
           /\ processed_images' = list
           /\ processed_paths' =
                  IF raises THEN {}
                  ELSE {list[i].input_path : i \in 1..Len(list)}
           /\ image_index' = IF raises THEN 0 ELSE StartIndex(Len(list))
           /\ todo' = IF raises THEN {} ELSE inputFiles
    /\ current_input_paths' = {}
    /\ updated_processed_images' = <<>>
    /\ pruneAt' = 1
    /\ ledgerAtStart' = ledgerFile
    /\ assigned' = <<>>
    /\ procCalls' = {}
    /\ written' = {}
    /\ deleted' = {}
    /\ saves' = 0
    /\ rerun' = unchanged
    /\ unchanged' = FALSE
    /\ UNCHANGED frame
    /\ UNCHANGED <<inputFiles, outputFiles, ledgerFile, maxAssigned>>

\* Lines 116-136, one file of os.walk, in whatever order the walk yields
\* them: filter by extension, record the path, skip it when it is in the
\* ledger, otherwise process it to the next numbered output and append an
\* entry.  process_image raises on a file it cannot decode, and nothing
\* catches it.
WalkFile(file) ==
    /\ pc = "walk"
    /\ file \in todo
    /\ todo' = todo \ {file}
    /\ LET allowed == AllowedExt(file)
           skip == allowed /\ AlreadyProcessed(file, processed_paths)
           call == allowed /\ ~skip
           ok == call /\ Decodable(file)
           output_path == OutputPath(image_index)
       IN  /\ current_input_paths' =
                  IF allowed THEN current_input_paths \cup {file}
                  ELSE current_input_paths
           /\ procCalls' = IF call THEN procCalls \cup {file} ELSE procCalls
           /\ pc' = IF call /\ ~ok THEN "aborted" ELSE "walk"
           /\ error' = IF call /\ ~ok THEN "ImageError" ELSE error
           /\ outputFiles' =
                  IF ok THEN WriteFile(outputFiles, output_path)
                  ELSE outputFiles
           /\ written' = IF ok THEN written \cup {output_path} ELSE written
           /\ processed_images' =
                  IF ok THEN Append(processed_images, Entry(file, output_path))
                  ELSE processed_images
           /\ processed_paths' =
                  IF ok THEN processed_paths \cup {file} ELSE processed_paths
           /\ assigned' = IF ok THEN Append(assigned, image_index) ELSE assigned
           /\ image_index' = IF ok THEN image_index + 1 ELSE image_index
    /\ UNCHANGED frame
    /\ UNCHANGED <<inputFiles, ledgerFile, updated_processed_images, pruneAt,
                   ledgerAtStart, deleted, saves, maxAssigned, unchanged, rerun>>

\* Line 139: the walk is over, the prune loop starts.
StartPrune ==
    /\ pc = "walk"
    /\ todo = {}
    /\ pc' = "prune"
    /\ updated_processed_images' = <<>>
    /\ pruneAt' = 1
    /\ UNCHANGED frame
    /\ UNCHANGED <<inputFiles, outputFiles, ledgerFile, error, processed_images,
                   processed_paths, image_index, current_input_paths, todo,
                   history>>

\* Lines 140-147, one entry of the prune loop: an entry whose input was not
\* discovered has its output file removed when it exists, any other entry is
\* kept.  img['output_path'] raises KeyError when the entry has no such key,
\* os.remove may raise OSError; nothing catches either.
PruneEntry ==
    /\ pc = "prune"
    /\ pruneAt <= Len(processed_images)
    /\ LET img == processed_images[pruneAt]
           stale == Stale(img, current_input_paths)
           badKey == stale /\ ~HasKey(img, "output_path")
           exists == stale /\ ~badKey /\ img.output_path \in outputFiles
       IN  \E removeFails \in BOOLEAN :
             LET oserror == exists /\ removeFails
                 removed == exists /\ ~removeFails
             IN  /\ pc' = IF badKey \/ oserror THEN "aborted" ELSE "prune"
                 /\ error' = IF badKey THEN "KeyError"
                             ELSE IF oserror THEN "OSError" ELSE error
                 /\ outputFiles' =
                        IF removed THEN RemoveFile(outputFiles, img.output_path)
                        ELSE outputFiles
                 /\ deleted' =
                        IF removed THEN deleted \cup {img.output_path}
                        ELSE deleted
                 /\ updated_processed_images' =
                        IF stale THEN updated_processed_images
                        ELSE Append(updated_processed_images, img)
                 /\ pruneAt' = IF badKey \/ oserror THEN pruneAt ELSE pruneAt + 1
    /\ UNCHANGED frame
    /\ UNCHANGED <<inputFiles, ledgerFile, processed_images, processed_paths,
                   image_index, current_input_paths, todo, ledgerAtStart,
                   assigned, procCalls, written, saves, maxAssigned, unchanged,
                   rerun>>

\* Line 150: the last step, write the ledger file.
Persist ==
    /\ pc = "prune"
    /\ pruneAt > Len(processed_images)
    /\ ledgerFile' = save_processed_images(ledgerFile, updated_processed_images)
    /\ saves' = saves + 1
    /\ pc' = "done"
    /\ maxAssigned' = MaxOf(assigned, maxAssigned)
    /\ unchanged' = TRUE
    /\ UNCHANGED frame
    /\ UNCHANGED <<inputFiles, outputFiles, error, locals, ledgerAtStart,
                   assigned, procCalls, written, deleted, rerun>>

\* The process is terminated in the middle of a run: its locals are gone.
Kill ==
    /\ Running
    /\ pc' = "aborted"
    /\ error' = "killed"
    /\ processed_images' = <<>>
    /\ processed_paths' = {}
    /\ image_index' = 0
    /\ current_input_paths' = {}
    /\ todo' = {}
    /\ updated_processed_images' = <<>>
    /\ pruneAt' = 1
    /\ UNCHANGED frame
    /\ UNCHANGED <<inputFiles, outputFiles, ledgerFile, history>>

Next ==
    \/ \E file \in Files : AddInput(file)
    \/ \E file \in Files : RemoveInput(file)
    \/ Load
    \/ \E file \in Files : WalkFile(file)
    \/ StartPrune
    \/ PruneEntry
    \/ Persist
    \/ Kill

Spec == Init /\ [][Next]_vars

\* The same program started on a ledger file of any content.
InitialLedgers ==
    { AbsentFile, EmptyFile, InvalidFile,
      JsonFile(JsonObject),
      JsonFile(JsonList(<<>>)),
      JsonFile(JsonList(<<[scalar |-> 1]>>)),
      JsonFile(JsonList(<<[output_path |-> OutputPath(0)]>>)),
      JsonFile(JsonList(<<[input_path |-> ImageFile(1)]>>)) }

InitLedger ==
    /\ inputFiles = {}
    /\ outputFiles = NoFiles
    /\ ledgerFile \in InitialLedgers
    /\ ledgerAtStart = ledgerFile
    /\ maxAssigned = -1
    /\ unchanged = FALSE
    /\ frame = NoCall
    /\ Fresh

SpecLedger == InitLedger /\ [][Next]_vars

\* The runs that complete: no step ends the run with an unhandled error
\* and the process is not terminated.
WalkFileCompleted(file) == WalkFile(file) /\ pc' # "aborted"

PruneEntryCompleted == PruneEntry /\ pc' # "aborted"

NextCompleted ==
    \/ \E file \in Files : AddInput(file)
    \/ \E file \in Files : RemoveInput(file)
    \/ Load
    \/ \E file \in Files : WalkFileCompleted(file)
    \/ StartPrune
    \/ PruneEntryCompleted
    \/ Persist

SpecCompleted == Init /\ [][NextCompleted]_vars

-----------------------------------------------------------------------------
\* One call of process_image, or of crop_to_aspect_ratio on its own, followed
\* step by step on a decoded source image of any size within the bounds.

\* Lines 49-65: the intermediate canvas size and the paste offset.
Dimensions ==
    /\ frame.op = "process_image"
    /\ frame.pc = "open"
    /\ LET new_size == CanvasSize(frame.size)
       IN  frame' = [frame EXCEPT
                        !.pc = "background",
                        !.new_size = new_size,
                        !.paste_position = PastePosition(new_size, frame.size)]
    /\ UNCHANGED walker

\* Lines 67-78: the background canvas.  Blurred: the blurred source (same
\* size) is cropped to 5:3 and handed to ImageOps.contain with the canvas
\* size; an exception of contain leaves process_image.  Otherwise a black
\* image of the canvas size.
Background ==
    /\ frame.op = "process_image"
    /\ frame.pc = "background"
    /\ LET box == crop_to_aspect_ratio(frame.size, target_aspect_ratio)
           fitted == contain(BoxSize(box), frame.new_size, frame.rounding)
           raises == frame.blurred_background /\ fitted.raises
       IN  frame' = [frame EXCEPT
                        !.pc = IF raises THEN "raised" ELSE "paste",
                        !.error = IF raises THEN fitted.error ELSE "none",
                        !.box = IF frame.blurred_background THEN box ELSE @,
                        !.new_background =
                            IF ~frame.blurred_background THEN frame.new_size
                            ELSE IF raises THEN @ ELSE fitted.size]
    /\ UNCHANGED walker

\* Line 81: the source is pasted on the background at paste_position; what
\* falls outside the background is dropped.
Paste ==
    /\ frame.op = "process_image"
    /\ frame.pc = "paste"
    /\ frame' = [frame EXCEPT !.pc = "resize"]
    /\ UNCHANGED walker

\* Lines 85-88: resize to (target_width, target_height) and save.
ResizeSave ==
    /\ frame.op = "process_image"
    /\ frame.pc = "resize"
    /\ frame' = [frame EXCEPT
                    !.pc = "saved",
                    !.saved = <<frame.target_width, frame.target_height>>]
    /\ UNCHANGED walker

\* crop_to_aspect_ratio called on its own, lines 17-39.
Crop ==
    /\ frame.op = "crop_to_aspect_ratio"
    /\ frame.pc = "call"
    /\ frame' = [frame EXCEPT
                    !.pc = "returned",
                    !.box = crop_to_aspect_ratio(frame.size, frame.ratio)]
    /\ UNCHANGED walker

InitImage ==
    /\ inputFiles = {}
    /\ outputFiles = NoFiles
    /\ ledgerFile = AbsentFile
    /\ ledgerAtStart = AbsentFile
    /\ maxAssigned = -1
    /\ unchanged = FALSE
    /\ Fresh
    /\ frame \in MainCalls \cup DirectCalls \cup CropCalls

NextImage ==
    \/ Dimensions
    \/ Background
    \/ Paste
    \/ ResizeSave
    \/ Crop

SpecImage == InitImage /\ [][NextImage]_vars

TypeOK ==
    /\ inputFiles \subseteq Files
    /\ pc \in {"idle", "walk", "prune", "done", "aborted"}

-----------------------------------------------------------------------------
\* What the properties speak about.

\* The entries of the ledger file as it is on disk.
Persisted == IF ledgerFile.kind = "json" THEN ledgerFile.data.items ELSE <<>>

\* The input files with an allowed extension, which a complete walk discovers.
Discovered == {file \in inputFiles : AllowedExt(file)}

\* The input paths the run found in the ledger it loaded.
LoadedPaths ==
    {Loaded[i].input_path :
        i \in {j \in 1..Len(Loaded) : HasKey(Loaded[j], "input_path")}}

\* The run is over and it was not the process being terminated that ended it.
Ended == pc \in {"done", "aborted"} /\ error # "killed"

-----------------------------------------------------------------------------
\* C1: in every run the i-th newly processed file gets the number n + i - 1,
\* where n is the number of entries of the ledger at load time.
C1_NumberingContinues ==
    \A i \in 1..Len(assigned) : assigned[i] = Len(Loaded) + (i - 1)

\* C2: a number assigned to a newly processed file is strictly greater than
\* every number assigned in an earlier completed run.
C2_NumbersNeverReused ==
    Running => \A i \in 1..Len(assigned) : assigned[i] > maxAssigned

\* C3: in a run whose inputs hold a file that fails to decode, every valid
\* new file is processed and the ledger persisted at the end of the run has
\* an entry for each of them.
C3_FailureIsolated ==
    (Ended /\ CorruptFile \in inputFiles) =>
        \A file \in Discovered :
            (Decodable(file) /\ file \notin LoadedPaths) =>
                /\ file \in procCalls
                /\ \E i \in 1..Len(Persisted) : Persisted[i].input_path = file

\* C4: a run started right after a completed run, with the input folder
\* unchanged, calls process_image for no file, writes and deletes no output
\* file, and persists a ledger equal to the one the first run persisted.
C4_Idempotent ==
    rerun =>
        /\ procCalls = {}
        /\ written = {}
        /\ deleted = {}
        /\ assigned = <<>>
        /\ pc = "done" => ledgerFile = ledgerAtStart

C4_Witness ==
    /\ rerun
    /\ pc = "done"
    /\ Len(Persisted) = 2
    /\ current_input_paths = Discovered
    /\ Cardinality(Discovered) = 2

\* C5: after a completed run, every entry of the loaded ledger whose
\* input_path was not discovered has no output file on disk and no entry
\* with that input_path is in the persisted ledger.
C5_Pruned ==
    pc = "done" =>
        \A i \in 1..Len(Loaded) :
            Loaded[i].input_path \notin current_input_paths =>
                /\ Loaded[i].output_path \notin outputFiles
                /\ \A j \in 1..Len(Persisted) :
                       Persisted[j].input_path # Loaded[i].input_path

C5_Witness ==
    /\ pc = "done"
    /\ \E i \in 1..Len(Loaded) :
           /\ Loaded[i].input_path \notin current_input_paths
           /\ Loaded[i].output_path \in deleted
    /\ Persisted # <<>>

\* C6: the ledger file is written once per run, by the last step; until
\* then, and in a run that stops before that step, it holds the content it
\* had when the run started.
C6_LedgerWrittenOnceAtEnd ==
    /\ pc \in {"walk", "prune", "aborted"} =>
           ledgerFile = ledgerAtStart /\ saves = 0
    /\ pc = "done" =>
           /\ saves = 1
           /\ ledgerFile = JsonFile(JsonList(updated_processed_images))

C6_Witness ==
    /\ pc = "aborted"
    /\ error \in {"ImageError", "OSError"}
    /\ written # {}
    /\ Persisted # <<>>
    /\ ledgerFile = ledgerAtStart

WellFormedLedger(data) ==
    /\ data.type = "list"
    /\ \A i \in 1..Len(data.items) :
           /\ HasKey(data.items[i], "input_path")
           /\ HasKey(data.items[i], "output_path")

\* C8: a ledger file holding well-formed JSON that is not an array of
\* objects with input_path and output_path is treated as an empty ledger and
\* raises nothing.
C8_MalformedLedgerStartsEmpty ==
    (pc # "idle" /\ ledgerAtStart.kind = "json"
       /\ ~WellFormedLedger(ledgerAtStart.data)) =>
        /\ error \notin {"JSONDecodeError", "KeyError"}
        /\ Running => Len(processed_images) = Len(assigned)

\* C9: no two entries of the persisted ledger have the same input_path.
C9_UniqueInputPaths ==
    \A i, j \in 1..Len(Persisted) :
        Persisted[i].input_path = Persisted[j].input_path => i = j

C9_Witness ==
    /\ pc = "done"
    /\ Len(Persisted) = 2
    /\ Len(Loaded) = 1
    /\ Len(assigned) = 1
    /\ deleted = {}
    /\ maxAssigned >= 2

\* C10: an error of os.remove during pruning does not end the run.
C10_RemoveErrorNotFatal == ~(pc = "aborted" /\ error = "OSError")

\* The loaded entries whose input was discovered again, in ledger order.
Kept ==
    SelectSeq(Loaded, LAMBDA img : img.input_path \in current_input_paths)

\* C13: an input that is in the loaded ledger and is discovered again is not
\* processed, its output file is neither rewritten nor deleted by the run,
\* and the persisted ledger holds its entry unchanged, in the same order.
C13_SkippedEntryUntouched ==
    pc \in {"walk", "prune", "done"} =>
        /\ \A i \in 1..Len(Kept) :
               /\ Kept[i].input_path \notin procCalls
               /\ Kept[i].output_path \notin written
               /\ Kept[i].output_path \notin deleted
        /\ pc = "done" =>
               /\ Len(Persisted) >= Len(Kept)
               /\ \A i \in 1..Len(Kept) : Persisted[i] = Kept[i]

\* C17: no two entries of the persisted ledger have the same output_path.
C17_DistinctOutputPaths ==
    \A i, j \in 1..Len(Persisted) :
        Persisted[i].output_path = Persisted[j].output_path => i = j

\* C18: after completed runs, the output file of every entry of the
\* persisted ledger exists on disk.
C18_NoDanglingEntries ==
    pc \in {"idle", "done"} =>
        \A i \in 1..Len(Persisted) : Persisted[i].output_path \in outputFiles

\* C19: after a completed run the input paths of the persisted ledger are
\* exactly the discovered input files with an allowed extension, and every
\* file processed in the run has its entry in it.
C19_LedgerInSync ==
    pc = "done" =>
        /\ current_input_paths = Discovered
        /\ {Persisted[i].input_path : i \in 1..Len(Persisted)} = Discovered
        /\ \A file \in procCalls :
               \E i \in 1..Len(Persisted) : Persisted[i].input_path = file

C19_Witness ==
    /\ pc = "done"
    /\ procCalls # {}
    /\ deleted # {}
    /\ CorruptFile \notin inputFiles
    /\ TextFile \in inputFiles

-----------------------------------------------------------------------------
\* The call of process_image has computed its canvas.
Composed == frame.op = "process_image" /\ frame.pc # "open"

\* The call of process_image has a background canvas.
HasBackground ==
    frame.op = "process_image" /\ frame.pc \in {"paste", "resize", "saved"}

\* A crop box has been computed for the source.
Cropped ==
    \/ frame.op = "crop_to_aspect_ratio" /\ frame.pc = "returned"
    \/ /\ frame.op = "process_image"
       /\ frame.blurred_background
       /\ frame.pc \in {"paste", "resize", "saved", "raised"}

\* C11: for every source image of positive width and height and both values
\* of the flag, process_image raises nothing and saves an image of exactly
\* target_width by target_height.
C11_SavesTargetSize ==
    frame.op = "process_image" =>
        /\ frame.pc # "raised"
        /\ frame.pc = "saved" =>
               frame.saved = <<frame.target_width, frame.target_height>>

\* C12: the box crop_to_aspect_ratio crops is non-empty and inside the
\* image: 0 <= left < right <= W and 0 <= upper < lower <= H.
C12_CropBoxInside ==
    Cropped =>
        /\ 0 <= frame.box[1]
        /\ frame.box[1] < frame.box[3]
        /\ frame.box[3] <= frame.size[1]
        /\ 0 <= frame.box[2]
        /\ frame.box[2] < frame.box[4]
        /\ frame.box[4] <= frame.size[2]

\* C14: new_width >= width and new_height >= height, the paste offset is
\* non-negative and the pasted source is inside (new_width, new_height).
C14_CanvasCoversSource ==
    Composed =>
        /\ frame.new_size[1] >= frame.size[1]
        /\ frame.new_size[2] >= frame.size[2]
        /\ frame.paste_position[1] >= 0
        /\ frame.paste_position[2] >= 0
        /\ frame.paste_position[1] + frame.size[1] <= frame.new_size[1]
        /\ frame.paste_position[2] + frame.size[2] <= frame.new_size[2]

C14_Witness ==
    /\ Composed
    /\ frame.pc = "saved"
    /\ frame.size = <<1, MaxSide>>
    /\ frame.new_size[1] > frame.size[1]
    /\ frame.paste_position[1] > 0

\* C15: with the blurred background the canvas the source is pasted on has
\* exactly the size (new_width, new_height).
C15_BlurCanvasFull ==
    (HasBackground /\ frame.blurred_background) =>
        frame.new_background = frame.new_size

\* C16: started through the entry point, every saved image is as wide as
\* the configured target width and as high as the configured target height.
C16_ConfiguredSize ==
    (frame.op = "process_image" /\ frame.via_main /\ frame.pc = "saved") =>
        frame.saved = <<ConfigTargetWidth, ConfigTargetHeight>>

====
